---------------------------- MODULE Spec2Model ----------------------------
(***************************************************************************)
(* Model of internal/generator/binding.go of objectbox-go: the discovery   *)
(* pass that turns annotated struct declarations into Binding / Entity /   *)
(* Property records.                                                       *)
(*                                                                         *)
(* Go strings are sequences of one-character strings, so that lowercasing, *)
(* trimming, splitting and slicing are computed as the code computes them. *)
(* A nil pointer (Relation, Index) is the empty sequence, a non-nil one a  *)
(* one-element sequence holding the record.  A Go map is a function whose  *)
(* domain is its key set; reading a missing key of a map (or of a nil map) *)
(* yields nil, which is "key \notin DOMAIN".  A *Property is identified by *)
(* the index of the field it was created for (ptr); 0 is nil.  The         *)
(* backquote character, which a TLA+ string cannot hold, is BackQuote.     *)
(***************************************************************************)
EXTENDS Integers, Sequences, FiniteSets, TLC

VARIABLES
    \* Binding (one discovery pass)
    Package, Entities, currentEntityName, err,
    \* where the modelled call stands, and what createFromAst returned
    pc, ret,
    \* entityLoader: callbacks so far, the last node's kind, binding.err on
    \* entry to the last callback, and what the last callback returned
    visited, lastKind, entryErr, lastReturn,
    \* the struct handed to createEntityFromAst
    astFields,
    \* one field and its Property through setAnnotations, setType, setObFlags
    field, property, perr,
    \* setAnnotations on one raw tag: the tokens it was written from, the
    \* literal, and the call's result
    tokens, tags, parsed,
    \* FbvTableOffset / FbSlot: Property.Id and the call's outcome
    propId, fbOut

vars == <<Package, Entities, currentEntityName, err, pc, ret, visited, lastKind,
          entryErr, lastReturn, astFields, field, property, perr, tokens, tags,
          parsed, propId, fbOut>>

-----------------------------------------------------------------------------
(* Bounds of the model *)

\* callbacks of one tree walk
MaxNodes == 5
\* fields of one struct
MaxFields == 2
\* tokens of one raw tag
MaxTokens == 2

-----------------------------------------------------------------------------
(* strings *)

BackQuote == "BACKQUOTE"
DoubleQuote == "\""

UpperLetters == <<"A", "B", "C", "D", "E", "F", "G", "H", "I", "J", "K", "L", "M", "N", "O", "P", "Q", "R", "S", "T", "U", "V", "W", "X", "Y", "Z">>
LowerLetters == <<"a", "b", "c", "d", "e", "f", "g", "h", "i", "j", "k", "l", "m", "n", "o", "p", "q", "r", "s", "t", "u", "v", "w", "x", "y", "z">>

\* unicode.ToLower on one character
ToLowerCh(c) ==
    IF \E i \in 1..Len(UpperLetters) : UpperLetters[i] = c
    THEN LowerLetters[CHOOSE i \in 1..Len(UpperLetters) : UpperLetters[i] = c]
    ELSE c

\* strings.ToLower
ToLower(s) == [i \in 1..Len(s) |-> ToLowerCh(s[i])]

\* unicode.IsSpace on the characters the model uses
IsSpaceCh(c) == c \in {" ", "\t", "\n", "\r"}

\* strings.TrimSpace
TrimSpace(s) ==
    LET keep == {i \in 1..Len(s) : ~IsSpaceCh(s[i])}
    IN  IF keep = {} THEN <<>>
        ELSE LET first == CHOOSE i \in keep : \A j \in keep : i <= j
                 last  == CHOOSE i \in keep : \A j \in keep : j <= i
             IN  SubSeq(s, first, last)

\* strings.IndexRune, 1-based; 0 when the character does not occur (Go: -1)
IndexRune(s, c) ==
    LET hits == {i \in 1..Len(s) : s[i] = c}
    IN  IF hits = {} THEN 0 ELSE CHOOSE i \in hits : \A j \in hits : i <= j

\* strings.Split(s, " ")
RECURSIVE SplitSpace(_)
SplitSpace(s) ==
    LET i == IndexRune(s, " ")
    IN  IF i = 0 THEN <<s>>
        ELSE <<SubSeq(s, 1, i - 1)>> \o SplitSpace(SubSeq(s, i + 1, Len(s)))

-----------------------------------------------------------------------------
(* errors: nil, or what fmt.Errorf was called with (the message's kind and  *)
(* the values formatted into it, in order)                                  *)

NoErr == [kind |-> "nil", ctx |-> <<>>]
Errorf(kind, ctx) == [kind |-> kind, ctx |-> ctx]
IsNil(e) == e.kind = "nil"
ErrEq(a, b) == a.kind = b.kind /\ a.ctx = b.ctx

E_InvalidAnnotation == "invalid annotation value"
E_DuplicateAnnotation == "duplicate annotation"
E_UnknownType == "unknown type"
E_DateType == "invalid underlying type for date field"
E_RelationType == "invalid underlying type for relation field"
E_IndexDefined == "index is already defined"
E_UnknownIndex == "unknown index type"
E_UnnamedStruct == "encountered a struct without a name"
E_FieldNames == "invalid number of names"
E_MultipleId == "multiple ID properties"
E_EmptyNameInDb == "nameInDb annotation value must not be empty"
E_DuplicateName == "duplicate name"
E_NoProperties == "there are no properties in the entity"
E_AmbiguousId == "id field is missing - annotate a field with id tag"
E_MissingId == "id field is missing - annotate or use a uint64 field named Id"

-----------------------------------------------------------------------------
(* Property.setAnnotations *)

EmptyMap == [k \in {} |-> <<>>]
Get(m, k) == m[k]
Has(m, k) == k \in DOMAIN m

K_id == <<"i", "d">>
K_index == <<"i", "n", "d", "e", "x">>
K_unique == <<"u", "n", "i", "q", "u", "e">>
K_nameindb == <<"n", "a", "m", "e", "i", "n", "d", "b">>
K_transient == <<"t", "r", "a", "n", "s", "i", "e", "n", "t">>
K_date == <<"d", "a", "t", "e">>
K_link == <<"l", "i", "n", "k">>

\* lines 242-244: the literal's delimiters are stripped when they match
StripDelimiters(t) ==
    IF Len(t) > 1 /\ t[1] = t[Len(t)] /\ (t[1] = BackQuote \/ t[1] = DoubleQuote)
    THEN SubSeq(t, 2, Len(t) - 1)
    ELSE t

\* line 273 without the case-folding
AnnotationName_NoFold(name0) == name0

\* line 273: names are case-folded
AnnotationName(name0) == ToLower(name0)

\* lines 253-280: one element of the split; st = [err, Annotations]
ParseTag(st, tag) ==
    IF Len(tag) = 0 THEN st
    ELSE
      LET i == IndexRune(tag, ":")
          name0 == IF i >= 1 THEN SubSeq(tag, 1, i - 1) ELSE tag
          rest  == IF i >= 1 THEN SubSeq(tag, i + 1, Len(tag)) ELSE <<>>
          quoted == Len(rest) > 1 /\ rest[1] = rest[Len(rest)] /\ rest[1] = DoubleQuote
          value == IF i >= 1 /\ quoted
                   THEN [Value |-> TrimSpace(SubSeq(rest, 2, Len(rest) - 1))]
                   ELSE [Value |-> <<>>]
          name  == AnnotationName(name0)
      IN  IF i >= 1 /\ ~quoted
          THEN [st EXCEPT !.err = Errorf(E_InvalidAnnotation, <<rest, name0>>)]
          ELSE IF Has(st.Annotations, name)
          THEN [st EXCEPT !.err = Errorf(E_DuplicateAnnotation, <<name>>)]
          ELSE [st EXCEPT !.Annotations = (name :> value) @@ st.Annotations]

\* lines 252-281: the loop over the split, left at the first error
RECURSIVE ParseTags(_, _, _)
ParseTags(st, parts, i) ==
    IF i > Len(parts) \/ st.err # NoErr THEN st
    ELSE ParseTags(ParseTag(st, parts[i]), parts, i + 1)

\* lines 241-284: [err, Annotations]; a property's map is nil before
setAnnotations(rawTags) ==
    LET t == StripDelimiters(rawTags)
    IN  IF t = <<>> THEN [err |-> NoErr, Annotations |-> EmptyMap]
        ELSE ParseTags([err |-> NoErr, Annotations |-> EmptyMap], SplitSpace(t), 1)

-----------------------------------------------------------------------------
(* Property *)

ItoA(n) == <<<<"0", "1", "2", "3", "4", "5", "6", "7", "8", "9">>[n + 1]>>

\* lines 150-153: &Property{entity: entity, Name: f.Names[0].Name}
NewProperty(ptr, name) ==
    [ptr |-> ptr, Name |-> name, ObName |-> <<>>, Annotations |-> EmptyMap,
     ObType |-> <<>>, ObFlags |-> <<>>, GoType |-> <<>>, FbType |-> <<>>,
     Relation |-> <<>>, Index |-> <<>>]

\* lines 290-334: the fixed table from the type's text
TypeTable ==
    << [go |-> <<"s", "t", "r", "i", "n", "g">>,  ob |-> <<"S", "t", "r", "i", "n", "g">>,     fb |-> <<"U", "O", "f", "f", "s", "e", "t", "T">>],
       [go |-> <<"i", "n", "t">>,     ob |-> <<"L", "o", "n", "g">>,       fb |-> <<"I", "n", "t", "6", "4">>],
       [go |-> <<"i", "n", "t", "6", "4">>,   ob |-> <<"L", "o", "n", "g">>,       fb |-> <<"I", "n", "t", "6", "4">>],
       [go |-> <<"u", "i", "n", "t">>,    ob |-> <<"L", "o", "n", "g">>,       fb |-> <<"U", "i", "n", "t", "6", "4">>],
       [go |-> <<"u", "i", "n", "t", "6", "4">>,  ob |-> <<"L", "o", "n", "g">>,       fb |-> <<"U", "i", "n", "t", "6", "4">>],
       [go |-> <<"i", "n", "t", "3", "2">>,   ob |-> <<"I", "n", "t">>,        fb |-> <<"I", "n", "t", "3", "2">>],
       [go |-> <<"r", "u", "n", "e">>,    ob |-> <<"I", "n", "t">>,        fb |-> <<"I", "n", "t", "3", "2">>],
       [go |-> <<"u", "i", "n", "t", "3", "2">>,  ob |-> <<"I", "n", "t">>,        fb |-> <<"U", "i", "n", "t", "3", "2">>],
       [go |-> <<"i", "n", "t", "1", "6">>,   ob |-> <<"S", "h", "o", "r", "t">>,      fb |-> <<"I", "n", "t", "1", "6">>],
       [go |-> <<"u", "i", "n", "t", "1", "6">>,  ob |-> <<"S", "h", "o", "r", "t">>,      fb |-> <<"U", "i", "n", "t", "1", "6">>],
       [go |-> <<"i", "n", "t", "8">>,    ob |-> <<"B", "y", "t", "e">>,       fb |-> <<"I", "n", "t", "8">>],
       [go |-> <<"u", "i", "n", "t", "8">>,   ob |-> <<"B", "y", "t", "e">>,       fb |-> <<"U", "i", "n", "t", "8">>],
       [go |-> <<"b", "y", "t", "e">>,    ob |-> <<"B", "y", "t", "e">>,       fb |-> <<"B", "y", "t", "e">>],
       [go |-> <<"[", "]", "b", "y", "t", "e">>,  ob |-> <<"B", "y", "t", "e", "V", "e", "c", "t", "o", "r">>, fb |-> <<"U", "O", "f", "f", "s", "e", "t", "T">>],
       [go |-> <<"f", "l", "o", "a", "t", "6", "4">>, ob |-> <<"D", "o", "u", "b", "l", "e">>,     fb |-> <<"F", "l", "o", "a", "t", "6", "4">>],
       [go |-> <<"f", "l", "o", "a", "t", "3", "2">>, ob |-> <<"F", "l", "o", "a", "t">>,      fb |-> <<"F", "l", "o", "a", "t", "3", "2">>],
       [go |-> <<"b", "o", "o", "l">>,    ob |-> <<"B", "o", "o", "l">>,       fb |-> <<"B", "o", "o", "l">>] >>

T_Long == <<"L", "o", "n", "g">>
T_Date == <<"D", "a", "t", "e">>
T_Relation == <<"R", "e", "l", "a", "t", "i", "o", "n">>

KnownType(ts) == \E i \in 1..Len(TypeTable) : TypeTable[i].go = ts
TypeRow(ts) == TypeTable[CHOOSE i \in 1..Len(TypeTable) : TypeTable[i].go = ts]

\* lines 336-342: the date refinement; r = [err, p]
RefineDate(r) ==
    IF ~Has(r.p.Annotations, K_date) THEN r
    ELSE IF r.p.ObType # T_Long
    THEN [r EXCEPT !.err = Errorf(E_DateType, <<r.p.ObType>>)]
    ELSE [r EXCEPT !.p.ObType = T_Date]

\* lines 344-353 with the link refinement not gated on Long
RefineLink_Ungated(r) ==
    IF ~Has(r.p.Annotations, K_link) THEN r
    ELSE [r EXCEPT !.p.ObType = T_Relation,
                   !.p.Relation = <<[Target |-> Get(r.p.Annotations, K_link).Value]>>]

\* lines 344-353: the link refinement; r = [err, p]
RefineLink(r) ==
    IF ~Has(r.p.Annotations, K_link) THEN r
    ELSE IF r.p.ObType # T_Long
    THEN [r EXCEPT !.err = Errorf(E_RelationType, <<r.p.ObType>>)]
    ELSE [r EXCEPT !.p.ObType = T_Relation,
                   !.p.Relation = <<[Target |-> Get(r.p.Annotations, K_link).Value]>>]

\* lines 286-356: [err, p]
setType(p, ts) ==
    LET p1 == [p EXCEPT !.GoType = ts]
    IN  IF ~KnownType(ts)
        THEN [err |-> Errorf(E_UnknownType, <<ts>>), p |-> p1]
        ELSE LET p2 == [p1 EXCEPT !.ObType = TypeRow(ts).ob, !.FbType = TypeRow(ts).fb]
                 d  == RefineDate([err |-> NoErr, p |-> p2])
             IN  IF d.err # NoErr THEN d ELSE RefineLink(d)

\* lines 358-360
addObFlag(p, flag) == [p EXCEPT !.ObFlags = Append(@, flag)]

\* lines 362-369 with a second allocation replacing the first
setIndex_Overwrite(p) == [err |-> NoErr, p |-> [p EXCEPT !.Index = <<[Id |-> 0, Uid |-> 0]>>]]

\* lines 362-369: [err, p]
setIndex(p) ==
    IF p.Index # <<>>
    THEN [err |-> Errorf(E_IndexDefined, <<>>), p |-> p]
    ELSE [err |-> NoErr, p |-> [p EXCEPT !.Index = <<[Id |-> 0, Uid |-> 0]>>]]

\* lines 372-374 with the id annotation adding no flag
FlagId_Never(p) == p

\* lines 372-374
FlagId(p) == IF Has(p.Annotations, K_id) THEN addObFlag(p, "ID") ELSE p

\* lines 376-395: [err, p]
FlagIndex(p) ==
    IF ~Has(p.Annotations, K_index) THEN [err |-> NoErr, p |-> p]
    ELSE LET p1 == addObFlag(p, "INDEXED")
             v  == ToLower(Get(p.Annotations, K_index).Value)
         IN  CASE v = <<>>      -> setIndex(p1)
               [] v = <<"v", "a", "l", "u", "e">>  -> setIndex(addObFlag(p1, "INDEX_VALUE"))
               [] v = <<"h", "a", "s", "h">>   -> setIndex(addObFlag(p1, "INDEX_HASH"))
               [] v = <<"h", "a", "s", "h", "6", "4">> -> setIndex(addObFlag(p1, "INDEX_HASH64"))
               [] OTHER -> [err |-> Errorf(E_UnknownIndex,
                                           <<Get(p.Annotations, K_index).Value>>),
                            p |-> p1]

\* lines 397-403: [err, p]
FlagUnique(p) ==
    IF ~Has(p.Annotations, K_unique) THEN [err |-> NoErr, p |-> p]
    ELSE setIndex(addObFlag(p, "UNIQUE"))

\* lines 405-409: [err, p]
FlagRelation(p) ==
    IF p.Relation = <<>> THEN [err |-> NoErr, p |-> p] ELSE setIndex(p)

\* lines 371-412: [err, p]
setObFlags(p) ==
    LET a == FlagIndex(FlagId(p))
    IN  IF a.err # NoErr THEN a
        ELSE LET b == FlagUnique(a.p)
             IN  IF b.err # NoErr THEN b ELSE FlagRelation(b.p)

-----------------------------------------------------------------------------
(* Binding.createEntityFromAst *)

\* lines 138-140
propertyError(e, p, entity) == Errorf(e.kind, e.ctx \o <<p.Name, entity.Name>>)

\* line 162
IsTransient(p) == Has(p.Annotations, K_transient)

\* line 194 without the case-folding
RealObName_NoFold(obName) == obName

\* line 194
RealObName(obName) == ToLower(obName)

\* lines 174-181: st = [err, entity, propertiesByName]
DesignateId(st, p) ==
    IF ~Has(p.Annotations, K_id) THEN st
    ELSE IF st.entity.IdProperty # 0
    THEN [st EXCEPT !.err =
            Errorf(E_MultipleId,
                   <<st.entity.Name,
                     (CHOOSE q \in {st.entity.Properties[k] :
                                      k \in 1..Len(st.entity.Properties)} :
                         q.ptr = st.entity.IdProperty).Name,
                     p.Name>>)]
    ELSE [st EXCEPT !.entity.IdProperty = p.ptr]

\* lines 183-202: the storage name, its uniqueness, and the append
StoreProperty(st, p) ==
    IF Has(p.Annotations, K_nameindb) /\ Len(Get(p.Annotations, K_nameindb).Value) = 0
    THEN [st EXCEPT !.err = propertyError(Errorf(E_EmptyNameInDb, <<>>), p, st.entity)]
    ELSE LET q == [p EXCEPT !.ObName = IF Has(p.Annotations, K_nameindb)
                                       THEN Get(p.Annotations, K_nameindb).Value
                                       ELSE p.Name]
             realObName == RealObName(q.ObName)
         IN  IF realObName \in st.propertiesByName
             THEN [st EXCEPT !.err =
                     propertyError(Errorf(E_DuplicateName, <<>>), q, st.entity)]
             ELSE [st EXCEPT !.propertiesByName = @ \cup {realObName},
                             !.entity.Properties = Append(@, q)]

\* lines 174-202: identity designation, then storage name and append
AcceptProperty(d, p) == IF d.err # NoErr THEN d ELSE StoreProperty(d, p)

\* lines 170-172: g = setObFlags' [err, p]
AfterObFlags(st, g) ==
    IF g.err # NoErr
    THEN [st EXCEPT !.err = propertyError(g.err, g.p, st.entity)]
    ELSE AcceptProperty(DesignateId(st, g.p), g.p)

\* lines 166-168: t = setType's [err, p]
AfterType(st, t) ==
    IF t.err # NoErr
    THEN [st EXCEPT !.err = propertyError(t.err, t.p, st.entity)]
    ELSE AfterObFlags(st, setObFlags(t.p))

\* lines 155-168 with the transient check after the type is resolved
AfterAnnotations_TransientLate(st, a, p, typeText) ==
    IF a.err # NoErr
    THEN [st EXCEPT !.err = propertyError(a.err, p, st.entity)]
    ELSE IF ~IsNil(setType(p, typeText).err)
    THEN [st EXCEPT !.err = propertyError(setType(p, typeText).err, p, st.entity)]
    ELSE IF IsTransient(p) THEN st
    ELSE AfterType(st, setType(p, typeText))

\* lines 155-164: a = setAnnotations' [err, Annotations], p the property
\* holding its Annotations
AfterAnnotations(st, a, p, typeText) ==
    IF a.err # NoErr
    THEN [st EXCEPT !.err = propertyError(a.err, p, st.entity)]
    ELSE IF IsTransient(p) THEN st
    ELSE AfterType(st, setType(p, typeText))

\* lines 155-159, the property with what the parse left in its map
Annotated(p, a) == [p EXCEPT !.Annotations = a.Annotations]
FieldAnnotations(f) ==
    IF f.hasTag THEN setAnnotations(f.Tag)
    ELSE [err |-> NoErr, Annotations |-> EmptyMap]
WithAnnotations(st, p, a, typeText) == AfterAnnotations(st, a, Annotated(p, a), typeText)

\* lines 145-202: the loop body for field number i
ProcessField(st, f, i) ==
    IF Len(f.Names) # 1
    THEN [st EXCEPT !.err = Errorf(E_FieldNames, <<st.entity.Name, ItoA(Len(f.Names))>>)]
    ELSE WithAnnotations(st, NewProperty(i, f.Names[1]), FieldAnnotations(f), f.Type)

\* lines 144-203: the loop over t.Fields.List, left at the first error
RECURSIVE FieldLoop(_, _, _)
FieldLoop(st, fields, i) ==
    IF i > Len(fields) \/ st.err # NoErr THEN st
    ELSE FieldLoop(ProcessField(st, fields[i], i), fields, i + 1)

\* line 213 with the name compared as declared
IsIdCandidate_CaseSensitive(p) == p.Name = <<"i", "d">> /\ ToLower(p.GoType) = <<"u", "i", "n", "t", "6", "4">>

\* line 213
IsIdCandidate(p) == ToLower(p.Name) = <<"i", "d">> /\ ToLower(p.GoType) = <<"u", "i", "n", "t", "6", "4">>

\* lines 212-223: the search for an ID property by name; st = [err, entity]
RECURSIVE InferId(_, _)
InferId(st, k) ==
    IF k > Len(st.entity.Properties) \/ st.err # NoErr THEN st
    ELSE LET p == st.entity.Properties[k]
         IN  IF ~IsIdCandidate(p) THEN InferId(st, k + 1)
             ELSE IF st.entity.IdProperty = 0
             THEN InferId([st EXCEPT !.entity.IdProperty = p.ptr,
                                     !.entity.Properties[k] = addObFlag(p, "ID")],
                          k + 1)
             ELSE [st EXCEPT !.err = Errorf(E_AmbiguousId, <<st.entity.Name>>)]

\* lines 225-228: s = [err, entity] after the search
CheckInferred(s) ==
    IF s.err # NoErr THEN s
    ELSE IF s.entity.IdProperty = 0
    THEN [s EXCEPT !.err = Errorf(E_MissingId, <<s.entity.Name>>)]
    ELSE s

\* lines 206-229 without the check for an entity of no properties
FinishEntity_NoEmptyCheck(st) ==
    IF st.entity.IdProperty # 0 THEN st ELSE CheckInferred(InferId(st, 1))

\* lines 206-229: the checks after the loop; st = [err, entity]
FinishEntity(st) ==
    IF Len(st.entity.Properties) = 0
    THEN [st EXCEPT !.err = Errorf(E_NoProperties, <<st.entity.Name>>)]
    ELSE IF st.entity.IdProperty # 0 THEN st
    ELSE CheckInferred(InferId(st, 1))

\* an error of the loop has returned already (lines 146-197)
AfterLoop(l) ==
    IF l.err # NoErr THEN [err |-> l.err, entity |-> l.entity]
    ELSE FinishEntity([err |-> NoErr, entity |-> l.entity])

\* lines 231-232
AppendEntity(entities, s) ==
    IF s.err # NoErr THEN [err |-> s.err, Entities |-> entities]
    ELSE [err |-> NoErr, Entities |-> Append(entities, s.entity)]

\* lines 131-136
NewEntity(name) == [Name |-> name, Properties |-> <<>>, IdProperty |-> 0]

\* lines 130-233: [err, Entities] for the struct's fields, with the binding's
\* currentEntityName and Entities as they are at the call
createEntityFromAst(name, entities, fields) ==
    AppendEntity(entities,
                 AfterLoop(FieldLoop([err |-> NoErr, entity |-> NewEntity(name),
                                      propertiesByName |-> {}],
                                     fields, 1)))

-----------------------------------------------------------------------------
(* Property.FbSlot, Property.FbvTableOffset.  A uint32 is [hi, lo], its two  *)
(* 16-bit halves, so that the 32-bit wrap-around is computed exactly.        *)

Two16 == 65536

U32(hi, lo) == [hi |-> hi, lo |-> lo]

\* x - 1 in uint32
U32Dec(x) ==
    IF x.lo > 0 THEN U32(x.hi, x.lo - 1)
    ELSE IF x.hi > 0 THEN U32(x.hi - 1, Two16 - 1)
    ELSE U32(Two16 - 1, Two16 - 1)

\* 2 * x in uint32
U32Double(x) == U32((2 * x.hi + (2 * x.lo) \div Two16) % Two16, (2 * x.lo) % Two16)

\* 4 + x in uint32
U32Add4(x) == U32((x.hi + (x.lo + 4) \div Two16) % Two16, (x.lo + 4) % Two16)

\* lines 455-457: int(property.Id - 1), the subtraction done in uint32
FbSlot(id) == U32Dec(id)

\* line 443: 4 + 2*uint32(property.FbSlot())
VTableOffset32(id) == U32Add4(U32Double(FbSlot(id)))

\* lines 441-451: [panicked, value]; uint16(result) is result's low half
FbvTableOffset(id) ==
    LET result == VTableOffset32(id)
    IN  IF U32(0, result.lo) # result
        THEN [panicked |-> TRUE, value |-> 0]
        ELSE [panicked |-> FALSE, value |-> result.lo]

-----------------------------------------------------------------------------
(* Binding.entityLoader, Binding.createFromAst *)

\* lines 115-119: r = createEntityFromAst's [err, Entities]
Consumed(r) ==
    [b |-> [Entities |-> r.Entities, currentEntityName |-> <<>>, err |-> r.err],
     return |-> TRUE]

\* lines 99-128 without the check of binding.err on entry
entityLoader_NoGuard(b, node) ==
    CASE node.kind = "TypeSpec" ->
           [b |-> [b EXCEPT !.currentEntityName = node.Name], return |-> TRUE]
      [] node.kind = "StructType" ->
           IF b.currentEntityName = <<>>
           THEN [b |-> [b EXCEPT !.err = Errorf(E_UnnamedStruct, <<>>)],
                 return |-> FALSE]
           ELSE Consumed(createEntityFromAst(b.currentEntityName, b.Entities,
                                             node.Fields))
      [] node.kind \in {"GenDecl", "File"} -> [b |-> b, return |-> TRUE]
      [] OTHER -> [b |-> b, return |-> FALSE]

\* lines 99-128: b = [Entities, currentEntityName, err]; the result adds the
\* callback's return value
entityLoader(b, node) ==
    IF b.err # NoErr THEN [b |-> b, return |-> FALSE]
    ELSE CASE node.kind = "TypeSpec" ->
                [b |-> [b EXCEPT !.currentEntityName = node.Name], return |-> TRUE]
           [] node.kind = "StructType" ->
                IF b.currentEntityName = <<>>
                THEN [b |-> [b EXCEPT !.err = Errorf(E_UnnamedStruct, <<>>)],
                      return |-> FALSE]
                ELSE Consumed(createEntityFromAst(b.currentEntityName, b.Entities,
                                                  node.Fields))
           [] node.kind \in {"GenDecl", "File"} -> [b |-> b, return |-> TRUE]
           [] OTHER -> [b |-> b, return |-> FALSE]

\* lines 91-95
createFromAstResult(e) == IF e # NoErr THEN e ELSE NoErr

-----------------------------------------------------------------------------
(* struct fields the specifications draw from: ast.Field as                  *)
(* [Names, hasTag, Tag, Type], Tag the literal with its delimiters and Type *)
(* the text types.ExprString gives                                          *)

Fld(names, tag, type) == [Names |-> names, hasTag |-> TRUE, Tag |-> tag, Type |-> type]
Untagged(names, type) == [Names |-> names, hasTag |-> FALSE, Tag |-> <<>>, Type |-> type]

F_Id == Untagged(<<<<"I", "d">>>>, <<"u", "i", "n", "t", "6", "4">>)
F_ID == Untagged(<<<<"I", "D">>>>, <<"u", "i", "n", "t", "6", "4">>)
F_IDRenamed == Fld(<<<<"I", "D">>>>, <<BackQuote, "n", "a", "m", "e", "i", "n", "d", "b", ":", "\"", "o", "t", "h", "e", "r", "\"", BackQuote>>, <<"u", "i", "n", "t", "6", "4">>)
F_IdTransient == Fld(<<<<"i", "d">>>>, <<BackQuote, "t", "r", "a", "n", "s", "i", "e", "n", "t", BackQuote>>, <<"u", "i", "n", "t", "6", "4">>)
F_idString == Untagged(<<<<"i", "d">>>>, <<"s", "t", "r", "i", "n", "g">>)
F_Name == Fld(<<<<"N", "a", "m", "e">>>>, <<BackQuote, "u", "n", "i", "q", "u", "e", BackQuote>>, <<"s", "t", "r", "i", "n", "g">>)
F_nameTransient == Fld(<<<<"n", "a", "m", "e">>>>, <<BackQuote, "t", "r", "a", "n", "s", "i", "e", "n", "t", BackQuote>>, <<"i", "n", "t">>)
F_AltName == Fld(<<<<"A", "l", "t">>>>, <<BackQuote, "n", "a", "m", "e", "i", "n", "d", "b", ":", "\"", "N", "A", "M", "E", "\"", BackQuote>>, <<"s", "t", "r", "i", "n", "g">>)
F_Key == Fld(<<<<"K", "e", "y">>>>, <<BackQuote, "i", "d", BackQuote>>, <<"u", "i", "n", "t", "6", "4">>)
F_Pk == Fld(<<<<"P", "k">>>>, <<BackQuote, "i", "d", BackQuote>>, <<"i", "n", "t", "6", "4">>)
F_KeyTransient == Fld(<<<<"T", "m", "p">>>>, <<BackQuote, "I", "D", " ", "T", "r", "a", "n", "s", "i", "e", "n", "t", BackQuote>>, <<"u", "i", "n", "t", "6", "4">>)
F_User == Fld(<<<<"U", "s", "e", "r">>>>, <<BackQuote, "l", "i", "n", "k", ":", "\"", "U", "s", "e", "r", "\"", BackQuote>>, <<"i", "n", "t", "6", "4">>)
F_When == Fld(<<<<"W", "h", "e", "n">>>>, <<BackQuote, "d", "a", "t", "e", BackQuote>>, <<"i", "n", "t", "6", "4">>)
F_DateString == Fld(<<<<"D", "a", "y">>>>, <<BackQuote, "d", "a", "t", "e", BackQuote>>, <<"s", "t", "r", "i", "n", "g">>)
F_Time == Untagged(<<<<"A", "t">>>>, <<"t", "i", "m", "e", ".", "T", "i", "m", "e">>)
F_TimeTransient == Fld(<<<<"A", "t">>>>, <<BackQuote, "t", "r", "a", "n", "s", "i", "e", "n", "t", " ", "i", "n", "d", "e", "x", ":", "\"", "b", "o", "g", "u", "s", "\"", BackQuote>>, <<"t", "i", "m", "e", ".", "T", "i", "m", "e">>)
F_Pair == Untagged(<<<<"a">>, <<"b">>>>, <<"i", "n", "t">>)
F_Embedded == Untagged(<<>>, <<"B", "a", "s", "e">>)
F_EmptyNameInDb == Fld(<<<<"E">>>>, <<BackQuote, "n", "a", "m", "e", "i", "n", "d", "b", ":", "\"", "\"", BackQuote>>, <<"s", "t", "r", "i", "n", "g">>)
F_TwoIndexes == Fld(<<<<"X">>>>, <<BackQuote, "i", "n", "d", "e", "x", ":", "\"", "h", "a", "s", "h", "\"", " ", "u", "n", "i", "q", "u", "e", BackQuote>>, <<"s", "t", "r", "i", "n", "g">>)
F_Malformed == Fld(<<<<"Z">>>>, <<BackQuote, "t", "r", "a", "n", "s", "i", "e", "n", "t", " ", "x", ":", "y", BackQuote>>, <<"i", "n", "t">>)
F_DupAnnotation == Fld(<<<<"D">>>>, <<BackQuote, "i", "d", " ", "I", "D", BackQuote>>, <<"u", "i", "n", "t", "6", "4">>)

FieldMenu ==
    {F_Id, F_ID, F_IDRenamed, F_IdTransient, F_idString, F_Name, F_nameTransient,
     F_AltName, F_Key, F_Pk, F_KeyTransient, F_User, F_When, F_DateString, F_Time,
     F_TimeTransient, F_Pair, F_Embedded, F_EmptyNameInDb, F_TwoIndexes,
     F_Malformed, F_DupAnnotation}

FieldLists == UNION {[1..n -> FieldMenu] : n \in 0..MaxFields}

\* the structs of the tree walk: the spec's User and Order scenarios, a
\* struct with an explicit id, and three that fail
WalkStructs ==
    {<<F_Id, F_Name>>, <<F_Id, F_User>>, <<F_Key, F_When>>,
     <<>>, <<F_Key, F_Pk>>, <<F_Name>>}

NodeMenu ==
    [kind : {"TypeSpec"}, Name : {<<"U", "s", "e", "r">>, <<"O", "r", "d", "e", "r">>}]
    \cup [kind : {"StructType"}, Fields : WalkStructs]
    \cup [kind : {"GenDecl", "File", "Ident"}]

PackageName == <<"m", "o", "d", "e", "l">>

InitIdle ==
    /\ Package = <<>> /\ Entities = <<>> /\ currentEntityName = <<>> /\ err = NoErr
    /\ ret = NoErr /\ visited = 0 /\ lastKind = "none" /\ entryErr = NoErr
    /\ lastReturn = FALSE
    /\ astFields = <<>>
    /\ field = Untagged(<<>>, <<>>) /\ property = NewProperty(0, <<>>) /\ perr = NoErr
    /\ tokens = <<>> /\ tags = <<>> /\ parsed = [err |-> NoErr, Annotations |-> EmptyMap]
    /\ propId = U32(0, 0) /\ fbOut = [panicked |-> FALSE, value |-> 0, slot |-> U32(0, 0)]

walkVars == <<Package, Entities, currentEntityName, err, ret, visited, lastKind,
              entryErr, lastReturn>>
propVars == <<field, property, perr>>
parseVars == <<tokens, tags, parsed>>
fbVars == <<propId, fbOut>>

-----------------------------------------------------------------------------
(* Spec: one discovery pass, createFromAst walking a file *)

Init == InitIdle /\ pc = "start"

\* line 84
CreateFromAstBegin ==
    /\ pc = "start"
    /\ Package' = PackageName
    /\ pc' = "walking"
    /\ UNCHANGED <<Entities, currentEntityName, err, ret, visited, lastKind, entryErr,
                   lastReturn, astFields, propVars, parseVars, fbVars>>

\* the binding after a callback, and what the callback returned
Called(r) ==
    /\ Entities' = r.b.Entities
    /\ currentEntityName' = r.b.currentEntityName
    /\ err' = r.b.err
    /\ lastReturn' = r.return

\* lines 87-89: the walk hands one more node to entityLoader
EntityLoader ==
    /\ pc = "walking"
    /\ visited < MaxNodes
    /\ \E node \in NodeMenu :
         /\ Called(entityLoader([Entities |-> Entities,
                                 currentEntityName |-> currentEntityName,
                                 err |-> err], node))
         /\ lastKind' = node.kind
    /\ entryErr' = err
    /\ visited' = visited + 1
    /\ UNCHANGED <<Package, pc, ret, astFields, propVars, parseVars, fbVars>>

\* lines 91-95: the walk is over
CreateFromAstReturn ==
    /\ pc = "walking"
    /\ ret' = createFromAstResult(err)
    /\ pc' = "returned"
    /\ UNCHANGED <<Package, Entities, currentEntityName, err, visited, lastKind,
                   entryErr, lastReturn, astFields, propVars, parseVars, fbVars>>

Next == CreateFromAstBegin \/ EntityLoader \/ CreateFromAstReturn

Spec == Init /\ [][Next]_vars

-----------------------------------------------------------------------------
(* SpecBuild: entityLoader on one named struct of up to MaxFields fields *)

StructName == <<"U", "s", "e", "r">>

InitBuild ==
    /\ Package = PackageName /\ Entities = <<>> /\ currentEntityName = StructName
    /\ err = NoErr /\ ret = NoErr /\ visited = 1 /\ lastKind = "TypeSpec"
    /\ entryErr = NoErr /\ lastReturn = TRUE
    /\ astFields \in FieldLists
    /\ field = Untagged(<<>>, <<>>) /\ property = NewProperty(0, <<>>) /\ perr = NoErr
    /\ tokens = <<>> /\ tags = <<>> /\ parsed = [err |-> NoErr, Annotations |-> EmptyMap]
    /\ propId = U32(0, 0) /\ fbOut = [panicked |-> FALSE, value |-> 0, slot |-> U32(0, 0)]
    /\ pc = "struct"

\* lines 109-119: the callback on the *ast.StructType that follows the name
BuildEntity ==
    /\ pc = "struct"
    /\ Called(entityLoader([Entities |-> Entities,
                            currentEntityName |-> currentEntityName,
                            err |-> err],
                           [kind |-> "StructType", Fields |-> astFields]))
    /\ lastKind' = "StructType"
    /\ entryErr' = err
    /\ visited' = visited + 1
    /\ pc' = "built"
    /\ UNCHANGED <<Package, ret, astFields, propVars, parseVars, fbVars>>

NextBuild == BuildEntity

SpecBuild == InitBuild /\ [][NextBuild]_vars

-----------------------------------------------------------------------------
(* What the claims say of a struct's fields, read off the declaration *)

\* the field binds one name and its tag parses
Parses(f) == Len(f.Names) = 1 /\ IsNil(FieldAnnotations(f).err)
\* the field carries annotation k
Carries(f, k) == Parses(f) /\ Has(FieldAnnotations(f).Annotations, k)
\* the fields that become properties: those not dropped as transient
Kept(fs) == {i \in 1..Len(fs) : Parses(fs[i]) /\ ~Carries(fs[i], K_transient)}
\* nameindb value if given, else the declared name
StorageName(f) ==
    IF Carries(f, K_nameindb) THEN Get(FieldAnnotations(f).Annotations, K_nameindb).Value
    ELSE f.Names[1]
StorageClash(fs) ==
    \E i, j \in Kept(fs) :
        i < j /\ ToLower(StorageName(fs[i])) = ToLower(StorageName(fs[j]))
\* nothing is wrong with the field on its own
FieldValid(f) ==
    /\ Parses(f)
    /\ \/ Carries(f, K_transient)
       \/ LET p == Annotated(NewProperty(1, f.Names[1]), FieldAnnotations(f))
          IN  /\ IsNil(setType(p, f.Type).err)
              /\ IsNil(setObFlags(setType(p, f.Type).p).err)
              /\ StorageName(f) # <<>>
ValidFields(fs) == (\A i \in 1..Len(fs) : FieldValid(fs[i])) /\ ~StorageClash(fs)
IdFields(fs) == {i \in Kept(fs) : Carries(fs[i], K_id)}
IdCandidates(fs) ==
    {i \in Kept(fs) : ToLower(fs[i].Names[1]) = <<"i", "d">> /\ fs[i].Type = <<"u", "i", "n", "t", "6", "4">>}
Least(s) == CHOOSE i \in s : \A j \in s : i <= j
CountOf(seq, x) == Cardinality({k \in 1..Len(seq) : seq[k] = x})
PropertyAt(e, ptr) ==
    e.Properties[CHOOSE k \in 1..Len(e.Properties) : e.Properties[k].ptr = ptr]
Built == pc = "built"
Appended == Built /\ IsNil(err) /\ Len(Entities) = 1

(* C2: every entity of Binding.Entities has at least one property, a non-nil *)
(* IdProperty that is one of its own Properties, and exactly one property    *)
(* carrying the ID flag, once, namely IdProperty; a struct whose build fails *)
(* is not appended.                                                          *)
EntityHasOneId(e) ==
    /\ Len(e.Properties) >= 1
    /\ e.IdProperty # 0
    /\ Cardinality({k \in 1..Len(e.Properties) : e.Properties[k].ptr = e.IdProperty}) = 1
    /\ \A k \in 1..Len(e.Properties) :
         CountOf(e.Properties[k].ObFlags, "ID")
           = IF e.Properties[k].ptr = e.IdProperty THEN 1 ELSE 0
C2_EntitiesHaveOneId ==
    /\ \A n \in 1..Len(Entities) : EntityHasOneId(Entities[n])
    /\ (Built /\ ~IsNil(err)) => Entities = <<>>
\* an entity whose identity was inferred stands beside a failed build's state
C2_Witness ==
    /\ Appended
    /\ IdFields(astFields) = {}
    /\ Len(Entities[1].Properties) = 2

(* C3: for a struct whose fields are each valid and whose storage names do   *)
(* not clash: two id-annotated fields fail with the error naming both; with  *)
(* no id-annotated field, one field named id (any case) of type uint64 is    *)
(* adopted as IdProperty and gains the ID flag, two such fields fail as      *)
(* ambiguous, and none fails as missing.                                     *)
C3_IdentityDetermination ==
    (Built /\ ValidFields(astFields) /\ Kept(astFields) # {}) =>
      LET ids == IdFields(astFields)
          cands == IdCandidates(astFields)
      IN  /\ Cardinality(ids) >= 2 =>
                ErrEq(err, Errorf(E_MultipleId,
                                  <<StructName, astFields[Least(ids)].Names[1],
                                    astFields[Least(ids \ {Least(ids)})].Names[1]>>))
          /\ (ids = {} /\ Cardinality(cands) = 1) =>
                /\ Appended
                /\ Entities[1].IdProperty = Least(cands)
                /\ CountOf(PropertyAt(Entities[1], Least(cands)).ObFlags, "ID") = 1
          /\ (ids = {} /\ Cardinality(cands) >= 2) =>
                ErrEq(err, Errorf(E_AmbiguousId, <<StructName>>))
          /\ (ids = {} /\ cands = {}) =>
                ErrEq(err, Errorf(E_MissingId, <<StructName>>))
          /\ ~IsNil(err) => Entities = <<>>
\* two candidates of the inference, the second under another storage name
C3_Witness ==
    /\ Built /\ ValidFields(astFields)
    /\ IdFields(astFields) = {} /\ Cardinality(IdCandidates(astFields)) = 2
    /\ err.kind = E_AmbiguousId

(* C6: two kept fields whose storage names are equal after lowercasing make  *)
(* the build fail, whichever is declared first; the lowercased storage names *)
(* of an appended entity's properties are pairwise distinct.                 *)
C6_StorageNamesUnique ==
    /\ (Built /\ StorageClash(astFields)) => (~IsNil(err) /\ Entities = <<>>)
    /\ \A n \in 1..Len(Entities) :
         \A i, j \in 1..Len(Entities[n].Properties) :
            i # j => ToLower(Entities[n].Properties[i].ObName)
                       # ToLower(Entities[n].Properties[j].ObName)
\* a declared name against a nameindb value that differs from it by case only
C6_Witness ==
    /\ Built /\ err.kind = E_DuplicateName
    /\ \E i, j \in Kept(astFields) :
         /\ i < j
         /\ StorageName(astFields[i]) # StorageName(astFields[j])
         /\ ToLower(StorageName(astFields[i])) = ToLower(StorageName(astFields[j]))
         /\ Carries(astFields[i], K_nameindb)

(* C7: a struct with no field, or whose every field carries transient,      *)
(* fails with the empty-entity error and is not appended.                    *)
C7_EmptyEntity ==
    (Built /\ \A i \in 1..Len(astFields) : Carries(astFields[i], K_transient)) =>
        /\ ErrEq(err, Errorf(E_NoProperties, <<StructName>>))
        /\ Entities = <<>>
\* every field transient, one of them of a type the resolver does not know
C7_Witness ==
    /\ Built /\ Len(astFields) = 2
    /\ \A i \in 1..Len(astFields) : Carries(astFields[i], K_transient)
    /\ \E i \in 1..Len(astFields) : ~KnownType(astFields[i].Type)
    /\ err.kind = E_NoProperties

(* C10: a field that carries transient takes part in no further check: the   *)
(* build's outcome (the error, or the entity's properties, its identity      *)
(* property and their flags) is that of the struct without the field.        *)
Without(fs, i) == SubSeq(fs, 1, i - 1) \o SubSeq(fs, i + 1, Len(fs))
Unlinked(p) == [p EXCEPT !.ptr = 0]
\* an entity up to the identity of its Property objects
Shape(e) ==
    [Name |-> e.Name,
     Properties |-> [k \in 1..Len(e.Properties) |-> Unlinked(e.Properties[k])],
     IdProperty |-> {k \in 1..Len(e.Properties) : e.Properties[k].ptr = e.IdProperty}]
SameOutcome(r1, r2) ==
    /\ ErrEq(r1.err, r2.err)
    /\ Len(r1.Entities) = Len(r2.Entities)
    /\ \A n \in 1..Len(r1.Entities) : Shape(r1.Entities[n]) = Shape(r2.Entities[n])
C10_TransientDropped ==
    Built =>
      \A i \in 1..Len(astFields) :
         Carries(astFields[i], K_transient) =>
            SameOutcome([err |-> err, Entities |-> Entities],
                        createEntityFromAst(StructName, <<>>, Without(astFields, i)))
\* a transient field named like the identity of an entity that is built
C10_Witness ==
    /\ Appended
    /\ \E i \in 1..Len(astFields) :
         /\ Carries(astFields[i], K_transient)
         /\ Carries(astFields[i], K_id)
    /\ Len(Entities[1].Properties) = 1

-----------------------------------------------------------------------------
(* Claims of the tree walk (Spec) *)

(* C1: once binding.err is set it is never overwritten or cleared, every     *)
(* later callback returns false, Binding.Entities does not change any more,  *)
(* and createFromAst returns that error.                                     *)
C1_FirstErrorWins ==
    [][/\ ~IsNil(err) =>
            /\ ErrEq(err', err)
            /\ Entities' = Entities
            /\ visited' # visited => lastReturn' = FALSE
       /\ (pc = "walking" /\ pc' = "returned") => ErrEq(ret', err)]_vars
\* a struct handed over after the error, an entity appended before it
C1_Witness ==
    /\ pc = "returned" /\ ~IsNil(ret)
    /\ ~IsNil(entryErr) /\ lastKind = "StructType"
    /\ Len(Entities) >= 1

-----------------------------------------------------------------------------
(* SpecProperty: one field's Property through setAnnotations, setType and    *)
(* setObFlags, as lines 150-172 call them                                    *)

Tok(name, kind, value) == [name |-> name, kind |-> kind, value |-> value]

RenderToken(t) ==
    CASE t.kind = "bare" -> t.name
      [] t.kind = "quoted" -> t.name \o <<":", "\"">> \o t.value \o <<"\"">>
      [] OTHER -> t.name \o <<":">> \o t.value

RECURSIVE Join(_)
Join(ts) ==
    IF Len(ts) = 0 THEN <<>>
    ELSE IF Len(ts) = 1 THEN RenderToken(ts[1])
    ELSE RenderToken(ts[1]) \o <<" ">> \o Join(Tail(ts))

Delimited(s, w) == IF w = "" THEN s ELSE <<w>> \o s \o <<w>>

Optional(t) == {<<>>, <<t>>}
IndexTokens ==
    {<<>>, <<Tok(<<"i", "n", "d", "e", "x">>, "bare", <<>>)>>, <<Tok(<<"i", "n", "d", "e", "x">>, "quoted", <<"v", "a", "l", "u", "e">>)>>,
     <<Tok(<<"I", "n", "d", "e", "x">>, "quoted", <<"h", "a", "s", "h">>)>>, <<Tok(<<"i", "n", "d", "e", "x">>, "quoted", <<"H", "A", "S", "H", "6", "4">>)>>,
     <<Tok(<<"i", "n", "d", "e", "x">>, "quoted", <<"b", "t", "r", "e", "e">>)>>}
PropertyTags ==
    {Delimited(Join(d \o l \o i \o u \o k), BackQuote) :
        d \in Optional(Tok(<<"d", "a", "t", "e">>, "bare", <<>>)),
        l \in Optional(Tok(<<"l", "i", "n", "k">>, "quoted", <<"U", "s", "e", "r">>)),
        i \in IndexTokens,
        u \in Optional(Tok(<<"u", "n", "i", "q", "u", "e">>, "bare", <<>>)),
        k \in Optional(Tok(<<"i", "d">>, "bare", <<>>))}
PropertyTypes == {TypeTable[i].go : i \in 1..Len(TypeTable)} \cup {<<"t", "i", "m", "e", ".", "T", "i", "m", "e">>}
PropertyFields == {Fld(<<<<"F">>>>, t, ty) : t \in PropertyTags, ty \in PropertyTypes}

InitProperty ==
    /\ Package = PackageName /\ Entities = <<>> /\ currentEntityName = StructName
    /\ err = NoErr /\ ret = NoErr /\ visited = 1 /\ lastKind = "TypeSpec"
    /\ entryErr = NoErr /\ lastReturn = TRUE
    /\ astFields = <<>>
    /\ field \in PropertyFields
    /\ property = NewProperty(1, field.Names[1]) /\ perr = NoErr
    /\ tokens = <<>> /\ tags = <<>> /\ parsed = [err |-> NoErr, Annotations |-> EmptyMap]
    /\ propId = U32(0, 0) /\ fbOut = [panicked |-> FALSE, value |-> 0, slot |-> U32(0, 0)]
    /\ pc = "annotations"

\* the property after a step, and where the loop body goes next
Stepped(r, p, next, failed) ==
    /\ perr' = r.err
    /\ property' = p
    /\ pc' = IF IsNil(r.err) THEN next ELSE failed

\* lines 155-164
SetAnnotations ==
    /\ pc = "annotations"
    /\ Stepped(FieldAnnotations(field), Annotated(property, FieldAnnotations(field)),
               "type", "failedAnnotations")
    /\ UNCHANGED <<walkVars, astFields, field, parseVars, fbVars>>

\* lines 166-168
SetType ==
    /\ pc = "type"
    /\ ~IsTransient(property)
    /\ Stepped(setType(property, field.Type), setType(property, field.Type).p,
               "flags", "failedType")
    /\ UNCHANGED <<walkVars, astFields, field, parseVars, fbVars>>

\* lines 170-172
SetObFlags ==
    /\ pc = "flags"
    /\ Stepped(setObFlags(property), setObFlags(property).p, "done", "failedFlags")
    /\ UNCHANGED <<walkVars, astFields, field, parseVars, fbVars>>

NextProperty == SetAnnotations \/ SetType \/ SetObFlags

SpecProperty == InitProperty /\ [][NextProperty]_vars

BaseType(ts) == TypeRow(ts).ob
HasDate == Has(property.Annotations, K_date)
HasLink == Has(property.Annotations, K_link)
LinkTarget == Get(property.Annotations, K_link).Value
TypeResolved == pc \in {"flags", "failedType"} /\ KnownType(field.Type)

(* C5 as stated: a date or link refinement on a base type other than Long    *)
(* fails; on Long it succeeds for every combination of the two annotations   *)
(* and overwrites the logical type, Date for date, Relation and a Relation   *)
(* record of the annotation's value for link.                                *)
C5_RefinementOnLongSucceeds ==
    TypeResolved =>
      /\ ((HasDate \/ HasLink) /\ BaseType(field.Type) # T_Long) => pc = "failedType"
      /\ ((HasDate \/ HasLink) /\ BaseType(field.Type) = T_Long) =>
            /\ pc = "flags"
            /\ property.ObType \in {T_Date, T_Relation}
            /\ HasLink => property.Relation = <<[Target |-> LinkTarget]>>

(* C5, amended: a date or link refinement on a base type other than Long     *)
(* fails; on Long, date alone succeeds and sets Date, link alone succeeds    *)
(* and sets Relation and the Relation record; with both, date is applied     *)
(* and link then fails on the type Date, so no field is both.                *)
C5_RefinementGatesOnLong ==
    TypeResolved =>
      /\ ((HasDate \/ HasLink) /\ BaseType(field.Type) # T_Long) =>
            /\ pc = "failedType"
            /\ perr.kind = IF HasDate THEN E_DateType ELSE E_RelationType
      /\ (HasDate /\ ~HasLink /\ BaseType(field.Type) = T_Long) =>
            /\ pc = "flags"
            /\ property.ObType = T_Date
            /\ property.Relation = <<>>
      /\ (HasLink /\ ~HasDate /\ BaseType(field.Type) = T_Long) =>
            /\ pc = "flags"
            /\ property.ObType = T_Relation
            /\ property.Relation = <<[Target |-> LinkTarget]>>
      /\ (HasDate /\ HasLink /\ BaseType(field.Type) = T_Long) =>
            /\ pc = "failedType"
            /\ ErrEq(perr, Errorf(E_RelationType, <<T_Date>>))
      /\ (~HasDate /\ ~HasLink) =>
            /\ pc = "flags"
            /\ property.ObType = BaseType(field.Type)
            /\ property.Relation = <<>>
\* date and link together on an unsigned Long
C5_Witness ==
    /\ pc = "failedType" /\ HasDate /\ HasLink
    /\ field.Type = <<"u", "i", "n", "t", "6", "4">>
    /\ property.ObType = T_Date

IndexValues == {<<>>, <<"v", "a", "l", "u", "e">>, <<"h", "a", "s", "h">>, <<"h", "a", "s", "h", "6", "4">>}
HasIndex == Has(property.Annotations, K_index)
HasUnique == Has(property.Annotations, K_unique)
HasRelation == property.Relation # <<>>
IndexRequests ==
    (IF HasIndex THEN 1 ELSE 0) + (IF HasUnique THEN 1 ELSE 0)
      + (IF HasRelation THEN 1 ELSE 0)
FlagsDerived ==
    /\ pc \in {"done", "failedFlags"}
    /\ HasIndex => ToLower(Get(property.Annotations, K_index).Value) \in IndexValues

(* C9: a property with exactly one of the index annotation (value empty,    *)
(* value, hash or hash64), the unique annotation and a non-nil Relation gets *)
(* an Index and no error, the Relation adding no flag; with two or more of   *)
(* them setObFlags fails with "index is already defined"; with none of them  *)
(* the property has no Index.                                                *)
C9_SingleIndex ==
    FlagsDerived =>
      /\ IndexRequests = 1 => (pc = "done" /\ property.Index # <<>>)
      /\ (IndexRequests = 1 /\ HasRelation) =>
            property.ObFlags = IF Has(property.Annotations, K_id) THEN <<"ID">> ELSE <<>>
      /\ IndexRequests >= 2 =>
            (pc = "failedFlags" /\ ErrEq(perr, Errorf(E_IndexDefined, <<>>)))
      /\ IndexRequests = 0 => (pc = "done" /\ property.Index = <<>>)
\* unique on a relation
C9_Witness ==
    /\ pc = "failedFlags" /\ perr.kind = E_IndexDefined
    /\ HasUnique /\ HasRelation /\ ~HasIndex

-----------------------------------------------------------------------------
(* SpecParse: setAnnotations on a raw tag written from up to MaxTokens       *)
(* tokens joined by single spaces: name, name:"value", the malformed         *)
(* name:value, or nothing (which leaves two spaces in a row, or a space at   *)
(* an end), bare or inside the literal's delimiters                          *)

Blank == Tok(<<>>, "bare", <<>>)
TokenNames == {<<"a">>, <<"A">>, <<"b">>}
TokenValues == {<<>>, <<"\t", "V", "\t">>, <<"x", ":", "y">>, <<"\"">>, <<"p", " ", "q">>}
TokenMenu ==
    {Blank}
    \cup {Tok(n, "bare", <<>>) : n \in TokenNames}
    \cup {Tok(n, "quoted", v) : n \in TokenNames, v \in TokenValues}
    \cup {Tok(<<"a">>, "raw", <<"v">>)}
TokenLists == UNION {[1..n -> TokenMenu] : n \in 0..MaxTokens}
Delimiters == {"", BackQuote, DoubleQuote}

InitParse ==
    /\ Package = PackageName /\ Entities = <<>> /\ currentEntityName = StructName
    /\ err = NoErr /\ ret = NoErr /\ visited = 1 /\ lastKind = "TypeSpec"
    /\ entryErr = NoErr /\ lastReturn = TRUE
    /\ astFields = <<>>
    /\ field = Untagged(<<>>, <<>>) /\ property = NewProperty(0, <<>>) /\ perr = NoErr
    /\ tokens \in TokenLists
    /\ \E w \in Delimiters : tags = Delimited(Join(tokens), w)
    /\ parsed = [err |-> NoErr, Annotations |-> EmptyMap]
    /\ propId = U32(0, 0) /\ fbOut = [panicked |-> FALSE, value |-> 0, slot |-> U32(0, 0)]
    /\ pc = "tag"

\* line 156
ParseAnnotations ==
    /\ pc = "tag"
    /\ parsed' = setAnnotations(tags)
    /\ pc' = "parsed"
    /\ UNCHANGED <<walkVars, astFields, propVars, tokens, tags, fbVars>>

NextParse == ParseAnnotations

SpecParse == InitParse /\ [][NextParse]_vars

\* the tokens the tag is made of
Written == SelectSeq(tokens, LAMBDA t : t # Blank)
Chars(s) == {s[i] : i \in 1..Len(s)}
WellFormedToken(t) ==
    /\ t.kind \in {"bare", "quoted"}
    /\ t.name # <<>>
    /\ Chars(t.name) \cap {" ", ":", DoubleQuote, BackQuote} = {}
    /\ " " \notin Chars(t.value)
WellFormedTag ==
    /\ \A i \in 1..Len(Written) : WellFormedToken(Written[i])
    /\ \A i, j \in 1..Len(Written) :
         i # j => ToLower(Written[i].name) # ToLower(Written[j].name)

(* C8: for a tag of space-separated tokens name or name:"value", no two      *)
(* names equal ignoring case, setAnnotations succeeds and the mapping has    *)
(* exactly one entry per token, keyed by the lowercased name, whose value is *)
(* the quoted content trimmed of surrounding whitespace, empty for a bare    *)
(* name.                                                                     *)
C8_AnnotationsParsed ==
    (pc = "parsed" /\ WellFormedTag) =>
      /\ IsNil(parsed.err)
      /\ DOMAIN parsed.Annotations = {ToLower(Written[i].name) : i \in 1..Len(Written)}
      /\ Cardinality(DOMAIN parsed.Annotations) = Len(Written)
      /\ \A i \in 1..Len(Written) :
           Get(parsed.Annotations, ToLower(Written[i].name)).Value
             = IF Written[i].kind = "bare" THEN <<>> ELSE TrimSpace(Written[i].value)
\* an upper-case name and a value with tabs around it, inside backquotes
C8_Witness ==
    /\ pc = "parsed" /\ WellFormedTag
    /\ Len(Written) = 2
    /\ tags[1] = BackQuote
    /\ Written[1].name = <<"A">>
    /\ Written[2].value = <<"\t", "V", "\t">>

-----------------------------------------------------------------------------
(* SpecOffset: FbvTableOffset on a property whose Id the model registry set *)

IdHighs == {0, 1, 32767, 32768, 65535}
IdLows == {0, 1, 2, 3, 4, 32765, 32766, 32767, 32768, 65534, 65535}

InitOffset ==
    /\ Package = PackageName /\ Entities = <<>> /\ currentEntityName = <<>>
    /\ err = NoErr /\ ret = NoErr /\ visited = 0 /\ lastKind = "none"
    /\ entryErr = NoErr /\ lastReturn = FALSE
    /\ astFields = <<>>
    /\ field = Untagged(<<>>, <<>>) /\ property = NewProperty(0, <<>>) /\ perr = NoErr
    /\ tokens = <<>> /\ tags = <<>> /\ parsed = [err |-> NoErr, Annotations |-> EmptyMap]
    /\ \E h \in IdHighs, l \in IdLows : propId = U32(h, l)
    /\ fbOut = [panicked |-> FALSE, value |-> 0, slot |-> U32(0, 0)]
    /\ pc = "template"

\* lines 441-457: the template asks for the property's slot and offset
CallFbvTableOffset ==
    /\ pc = "template"
    /\ fbOut' = [panicked |-> FbvTableOffset(propId).panicked,
                 value |-> FbvTableOffset(propId).value,
                 slot |-> FbSlot(propId)]
    /\ pc' = "rendered"
    /\ UNCHANGED <<walkVars, astFields, propVars, parseVars, propId>>

NextOffset == CallFbvTableOffset

SpecOffset == InitOffset /\ [][NextOffset]_vars

\* id >= 1 and 4 + 2*(id - 1) <= 65535: id is 1 .. 32766
OffsetFits == propId.hi = 0 /\ propId.lo >= 1 /\ 2 * (propId.lo - 1) + 4 < Two16
\* id >= 1 and 4 + 2*(id - 1) > 65535: id is 32767 or more
OffsetTooLarge == propId.hi > 0 \/ 2 * (propId.lo - 1) + 4 >= Two16

(* C4: for an identifier id >= 1, FbSlot is id - 1 and FbvTableOffset        *)
(* returns 4 + 2*(id - 1) whenever that is at most 65535, and the call       *)
(* panics for every identifier for which 4 + 2*slot exceeds 65535.           *)
C4_OffsetOrPanic ==
    pc = "rendered" =>
      /\ OffsetFits =>
           /\ fbOut.slot = U32(0, propId.lo - 1)
           /\ ~fbOut.panicked
           /\ fbOut.value = 4 + 2 * (propId.lo - 1)
      /\ OffsetTooLarge => fbOut.panicked

=============================================================================
